---- MODULE Spec2Model ----
(***************************************************************************)
(* The pager of rat (lib/pager.go) and its shell command wrapper: the      *)
(* cursor/scroll state machine, the key-event dispatch and Reload.         *)
(***************************************************************************)
EXTENDS Integers, Sequences, FiniteSets, TLC

(* ---------------------------------------------------------------------- *)
(* Bounds of the model                                                     *)
(* ---------------------------------------------------------------------- *)
\* most lines a buffer generation receives
MaxLines == 3
\* tallest box handed to SetBox (the content box is one row shorter)
MaxBoxHeight == 4
\* most shell commands started after the first one
MaxReloads == 2
\* most annotations the annotators attach to one buffer generation
MaxAnnotations == 2
\* most shell commands a client of the wrapper creates
MaxWrappers == 2

\* the header row taken from the box by layout()
HeaderRows == 1
\* the smallest box that leaves a content row
MinBoxHeight == HeaderRows + 1

BoxHeights == MinBoxHeight..MaxBoxHeight
\* indices requested of MoveCursorToY / ScrollToY: below, inside and beyond
Requests == (0 - 1)..(MaxLines + 1)

DefaultKeys == {"C-r", "j", "k", "down", "up", "C-e", "C-y", "pgdn", "pgup", "g", "S-g"}
Keys == DefaultKeys \cup {"enter"}
\* keys that modes and later callers register listeners on
RegKeys == {"enter", "j"}
AnnRegKeys == {"enter"}
\* keys delivered to HandleEvent in the dispatch specification
DispatchKeys == {"enter", "j"}
\* keys delivered to HandleEvent next to the direct calls
PagerKeys == {"C-r", "pgdn", "enter"}
Classes == {"url", "path"}
Vals == {"v1", "v2"}
PlainHandlers == {"modeHandler"}
AnnHandlers == {"openHandler", "copyHandler"}
\* how NewShellCommand can end: started, or the step that returned the error
StartOutcomes == {"ok", "stdout_pipe", "stderr_pipe", "start"}
\* the processes of one command: the shell that was spawned and what it forks
Processes == {"shell", "child"}
\* keys delivered to HandleEvent in the locking specification
LockKeys == {"C-r", "j", "enter"}

VARIABLES
    cursorY,                  \* p.cursorY
    scrollOffsetY,            \* p.scrollOffsetY
    box,                      \* height of p.box
    contentBox,               \* height of p.contentBox
    eventListeners,           \* p.eventListeners: key -> handler
    annotationEventListeners, \* p.annotationEventListeners: key -> class -> handler
    command,                  \* p.command: id of the shell command it refers to
    buffer,                   \* p.buffer: id of the buffer generation it refers to
    procs,                    \* every shell command created so far: id -> lifecycle
    closedBuffers,            \* buffer generations that got Close()
    events,                   \* the calls made on commands and buffers, in order
    tree,                     \* shell command id -> its processes still alive
    killed,                   \* commands whose tree a kill has taken hold of
    pc,                       \* where the pager is inside HandleEvent / Render
    held,                     \* buffer generations whose lock the pager holds
    lockedGen,                \* the generation the pending Unlock is bound to
    snapshot,                 \* annotations HandleEvent read for the cursor line
    access,                   \* the pager's last access to a buffer generation
    headerLines,              \* the line count the last drawHeader showed
    markerRow,                \* the row the last drawContent put the marker on
    numLines,                 \* p.buffer.NumLines()
    annotations,              \* line of p.buffer -> its annotations, in reported order
    fault,                    \* "none", or how the pager ended
    lastOp,                   \* the operation that produced this state
    lastArg,                  \* its numeric argument
    lastKey,                  \* the key of the last HandleEvent
    invoked,                  \* handlers called by the last HandleEvent, in order
    handled                   \* what the last HandleEvent returned

vars == <<cursorY, scrollOffsetY, box, contentBox, eventListeners,
          annotationEventListeners, command, buffer, procs, closedBuffers,
          events, tree, killed, pc, held, lockedGen, snapshot, access,
          headerLines, markerRow,
          numLines, annotations, fault, lastOp, lastArg, lastKey, invoked, handled>>

navVars == <<cursorY, scrollOffsetY>>
boxVars == <<box, contentBox>>
tableVars == <<eventListeners, annotationEventListeners>>
pairVars == <<command, buffer, procs, closedBuffers, events>>
osVars == <<tree, killed>>
lockVars == <<pc, held, lockedGen, snapshot, access>>
drawVars == <<headerLines, markerRow>>
bufVars == <<numLines, annotations>>
outVars == <<invoked, handled>>
history == <<lastOp, lastArg, lastKey, invoked, handled>>

Max(a, b) == IF a > b THEN a ELSE b
Clamp(x, lo, hi) == IF x < lo THEN lo ELSE IF x > hi THEN hi ELSE x

(* ---------------------------------------------------------------------- *)
(* Cursor and scroll setters                                               *)
(* ---------------------------------------------------------------------- *)
\* A call of one setter: which one, its argument and the fields it starts from.
\* The setters are deterministic and the line count and height are fixed during
\* a call chain, so a call that repeats an earlier one of the chain never returns.
Call(fn, arg, c, s) == <<fn, arg, c, s>>

NavResult(c, s, seen, over) ==
    [cursorY |-> c, scrollOffsetY |-> s, calls |-> Cardinality(seen), overflow |-> over]

\* the cursor clamp of MoveCursorToY
CursorTarget(y, n) ==
    IF y < 0 THEN 0
    ELSE IF y >= n THEN n - 1
    ELSE y

\* the scroll clamp of ScrollToY
ScrollTarget(y, n, h) ==
    IF y < 0 THEN 0
    ELSE IF y >= n - h THEN (IF n > h THEN n - h ELSE 0)
    ELSE y

RECURSIVE MoveCursorToYFrom(_, _, _, _, _, _)
RECURSIVE ScrollToYFrom(_, _, _, _, _, _)

\* MoveCursorToY(y) entered with fields c, s; seen = the calls of the chain so far
MoveCursorToYFrom(y, c, s, n, h, seen) ==
    IF Call("MoveCursorToY", y, c, s) \in seen
    THEN NavResult(c, s, seen, TRUE)
    ELSE LET c1 == CursorTarget(y, n)
             seen1 == seen \cup {Call("MoveCursorToY", y, c, s)}
         IN  IF c1 < s THEN ScrollToYFrom(c1, c1, s, n, h, seen1)
             ELSE IF c1 > s + h - 1 THEN ScrollToYFrom(c1 - (h - 1), c1, s, n, h, seen1)
             ELSE NavResult(c1, s, seen1, FALSE)

\* ScrollToY(y) entered with fields c, s
ScrollToYFrom(y, c, s, n, h, seen) ==
    IF Call("ScrollToY", y, c, s) \in seen
    THEN NavResult(c, s, seen, TRUE)
    ELSE LET s1 == ScrollTarget(y, n, h)
             seen1 == seen \cup {Call("ScrollToY", y, c, s)}
         IN  IF c < s1 THEN MoveCursorToYFrom(s1, c, s1, n, h, seen1)
             ELSE IF c > s1 + h - 1 THEN MoveCursorToYFrom(s1 + h - 1, c, s1, n, h, seen1)
             ELSE NavResult(c, s1, seen1, FALSE)

\* the outcome of p.MoveCursorToY(y) and p.ScrollToY(y) on the current fields
CursorTo(y) == MoveCursorToYFrom(y, cursorY, scrollOffsetY, numLines, contentBox, {})
ScrollTo(y) == ScrollToYFrom(y, cursorY, scrollOffsetY, numLines, contentBox, {})
MoveCursorY(delta) == CursorTo(cursorY + delta)
ScrollY(delta) == ScrollTo(scrollOffsetY + delta)

\* the fields after a setter chain; a chain that never returns exhausts the
\* goroutine stack, which ends the process
StoreNav(r) ==
    /\ cursorY' = r.cursorY
    /\ scrollOffsetY' = r.scrollOffsetY
    /\ fault' = IF r.overflow THEN "stack_overflow" ELSE "none"

NavOps == {"CursorUp", "CursorDown", "CursorFirstLine", "CursorLastLine",
           "ScrollUp", "ScrollDown", "PageUp", "PageDown"}

NavOf(op) ==
    CASE op = "CursorUp" -> MoveCursorY(0 - 1)
      [] op = "CursorDown" -> MoveCursorY(1)
      [] op = "CursorFirstLine" -> CursorTo(0)
      [] op = "CursorLastLine" -> CursorTo(numLines)
      [] op = "ScrollUp" -> ScrollY(0 - 1)
      [] op = "ScrollDown" -> ScrollY(1)
      [] op = "PageUp" -> ScrollY(0 - contentBox)
      [] op = "PageDown" -> ScrollY(contentBox)

(* ---------------------------------------------------------------------- *)
(* Listener tables                                                         *)
(* ---------------------------------------------------------------------- *)
addDefaultListeners ==
    [k \in DefaultKeys |->
        CASE k = "C-r" -> "Reload"
          [] k \in {"j", "down"} -> "CursorDown"
          [] k \in {"k", "up"} -> "CursorUp"
          [] k = "C-e" -> "ScrollDown"
          [] k = "C-y" -> "ScrollUp"
          [] k = "pgdn" -> "PageDown"
          [] k = "pgup" -> "PageUp"
          [] k = "g" -> "CursorFirstLine"
          [] k = "S-g" -> "CursorLastLine"]

\* m[k] = v, adding k when absent
Put(m, k, v) == [x \in DOMAIN m \cup {k} |-> IF x = k THEN v ELSE m[x]]

EmptyMap == [x \in {} |-> "none"]

(* ---------------------------------------------------------------------- *)
(* Buffer: the external collaborator, seen through its read interface     *)
(* ---------------------------------------------------------------------- *)
Lines == 0..(numLines - 1)

\* the annotations of a line, in the order the buffer reports them
AnnotationsForLine(y) == IF y \in DOMAIN annotations THEN annotations[y] ELSE <<>>

RECURSIVE SumLens(_, _)
SumLens(f, S) ==
    IF S = {} THEN 0
    ELSE LET x == CHOOSE x \in S : TRUE IN Len(f[x]) + SumLens(f, S \ {x})

NumAnnotations == SumLens(annotations, DOMAIN annotations)

NoAnnotations == [y \in {} |-> <<>>]

(* ---------------------------------------------------------------------- *)
(* The shell command wrapper and the (command, buffer) pair                *)
(* ---------------------------------------------------------------------- *)
\* what NewShellCommand returns: the instance always, its cmd.Process set only
\* when Start ran and succeeded, and the error of the step that failed
NewShellCommand(outcome) ==
    [process |-> outcome = "ok", err |-> outcome # "ok"]

\* the lifecycle a new instance is in
Lifecycle(sc) == IF sc.err THEN "Failed" ELSE "Running"

Event(op, id) == <<op, id>>

\* Stop(): Close() on the command, then on the buffer
StopEvents == <<Event("CloseCommand", command), Event("CloseBuffer", buffer)>>

\* RunCommand(): the command is created; a buffer and its annotators only
\* when that returned no error
RunEvents(id, sc) ==
    <<Event("Start", id)>> \o
        (IF sc.err THEN <<>> ELSE <<Event("NewBuffer", id), Event("AnnotateWith", id)>>)

NoAccess == [kind |-> "none", gen |-> 0, retired |-> FALSE]

\* the pager NewCmdPager returns, laid out by a first SetBox: default listeners,
\* a running command, an empty buffer, cursor and offset on line 0; or the
\* panic of its RunCommand when the command could not be started
Init ==
    /\ cursorY = 0
    /\ scrollOffsetY = 0
    /\ box \in BoxHeights
    /\ contentBox = box - HeaderRows
    /\ eventListeners = addDefaultListeners
    /\ annotationEventListeners = [x \in {} |-> EmptyMap]
    /\ command = 1
    /\ \E outcome \in StartOutcomes :
           LET sc == NewShellCommand(outcome)
           IN  /\ procs = [i \in {1} |-> Lifecycle(sc)]
               /\ buffer = IF sc.err THEN 0 ELSE 1
               /\ events = RunEvents(1, sc)
               /\ fault = IF sc.err THEN "start_failed" ELSE "none"
    /\ closedBuffers = {}
    /\ tree = [i \in {} |-> {}]
    /\ killed = {}
    /\ pc = "idle"
    /\ held = {}
    /\ lockedGen = 0
    /\ snapshot = <<>>
    /\ access = NoAccess
    /\ headerLines = 0
    /\ markerRow = 0
    /\ numLines = 0
    /\ annotations = NoAnnotations
    /\ lastOp = "NewCmdPager"
    /\ lastArg = 0
    /\ lastKey = ""
    /\ invoked = <<>>
    /\ handled = "none"

(* ---------------------------------------------------------------------- *)
(* Key-event dispatch                                                      *)
(* ---------------------------------------------------------------------- *)
RECURSIVE ContextKeepFirst(_, _)
\* ContextOf with the merge turned round: the first annotation of a class stays
ContextKeepFirst(anns, i) ==
    IF i = 0 THEN EmptyMap
    ELSE LET before == ContextKeepFirst(anns, i - 1)
         IN  IF anns[i].class \in DOMAIN before THEN before
             ELSE Put(before, anns[i].class, anns[i].val)

RECURSIVE ContextOf(_, _)
\* ctx after the first i annotations: ctx[a.Class()] = a.Val() for each in turn
ContextOf(anns, i) ==
    IF i = 0 THEN EmptyMap
    ELSE Put(ContextOf(anns, i - 1), anns[i].class, anns[i].val)

RECURSIVE LastHandled(_, _, _)
\* FirstHandled scanning on after a match: the last handled annotation wins
LastHandled(handlers, anns, i) ==
    IF i > Len(anns) THEN 0
    ELSE LET later == LastHandled(handlers, anns, i + 1)
         IN  IF later > 0 THEN later
             ELSE IF anns[i].class \in DOMAIN handlers THEN i
             ELSE 0

RECURSIVE FirstHandled(_, _, _)
\* index of the first annotation from i on whose class has a handler, 0 if none
FirstHandled(handlers, anns, i) ==
    IF i > Len(anns) THEN 0
    ELSE IF anns[i].class \in DOMAIN handlers THEN i
    ELSE FirstHandled(handlers, anns, i + 1)

Invocation(h, kind, ctx) == [handler |-> h, kind |-> kind, ctx |-> ctx]

\* Dispatch without the return after the annotation handler: the plain
\* listener of the key is called as well
DispatchFallThrough(ke, anns, annListeners, listeners) ==
    LET ctx == ContextOf(anns, Len(anns))
        i == IF ke \in DOMAIN annListeners /\ Len(anns) > 0
             THEN FirstHandled(annListeners[ke], anns, 1)
             ELSE 0
        first == IF i > 0
                 THEN <<Invocation(annListeners[ke][anns[i].class], "annotation", ctx)>>
                 ELSE <<>>
        second == IF ke \in DOMAIN listeners
                  THEN <<Invocation(listeners[ke], "plain", EmptyMap)>>
                  ELSE <<>>
    IN  [invoked |-> first \o second, handled |-> first \o second # <<>>]

\* the handlers HandleEvent calls, in order, and the value it returns
Dispatch(ke, anns, annListeners, listeners) ==
    LET ctx == ContextOf(anns, Len(anns))
        i == IF ke \in DOMAIN annListeners /\ Len(anns) > 0
             THEN FirstHandled(annListeners[ke], anns, 1)
             ELSE 0
    IN  IF i > 0
        THEN [invoked |-> <<Invocation(annListeners[ke][anns[i].class], "annotation", ctx)>>,
              handled |-> TRUE]
        ELSE IF ke \in DOMAIN listeners
        THEN [invoked |-> <<Invocation(listeners[ke], "plain", EmptyMap)>>,
              handled |-> TRUE]
        ELSE [invoked |-> <<>>, handled |-> FALSE]

(* ---------------------------------------------------------------------- *)
(* Operations                                                              *)
(* ---------------------------------------------------------------------- *)
Alive == fault = "none"

\* the pager's own path is one thread: a call starts when the last has returned
Ready == Alive /\ pc = "idle"

\* the buffer's lock is free for its producers
Unlocked == buffer \notin held

Record(op, arg) ==
    /\ lastOp' = op
    /\ lastArg' = arg
    /\ lastKey' = ""
    /\ invoked' = <<>>
    /\ handled' = "none"

Done(op, arg) ==
    /\ UNCHANGED <<osVars, lockVars, drawVars>>
    /\ Record(op, arg)

\* StopAndRun with RunCommand first: the new pair is up before the old is closed
StopAndRunStartingFirst ==
    \E outcome \in StartOutcomes :
        LET id == Cardinality(DOMAIN procs) + 1
            sc == NewShellCommand(outcome)
            stopped == [procs EXCEPT ![command] = "Closed"]
        IN  /\ id <= MaxReloads + 1
            /\ closedBuffers' = closedBuffers \cup {buffer}
            /\ command' = id
            /\ procs' = Put(stopped, id, Lifecycle(sc))
            /\ events' = events \o RunEvents(id, sc) \o StopEvents
            /\ IF sc.err
               THEN /\ UNCHANGED <<buffer, numLines, annotations>>
                    /\ fault' = "start_failed"
               ELSE /\ buffer' = id
                    /\ numLines' = 0
                    /\ annotations' = NoAnnotations
                    /\ fault' = "none"
            /\ UNCHANGED <<navVars, boxVars>>

\* StopAndRun without the panic: the error of NewShellCommand is dropped and
\* the buffer and its annotators are set up over the failed command
StopAndRunIgnoringError ==
    \E outcome \in StartOutcomes :
        LET id == Cardinality(DOMAIN procs) + 1
            sc == NewShellCommand(outcome)
            stopped == [procs EXCEPT ![command] = "Closed"]
        IN  /\ id <= MaxReloads + 1
            /\ closedBuffers' = closedBuffers \cup {buffer}
            /\ command' = id
            /\ procs' = Put(stopped, id, Lifecycle(sc))
            /\ events' = events \o StopEvents \o
                              <<Event("Start", id), Event("NewBuffer", id),
                                Event("AnnotateWith", id)>>
            /\ buffer' = id
            /\ numLines' = 0
            /\ annotations' = NoAnnotations
            /\ fault' = "none"
            /\ UNCHANGED <<navVars, boxVars>>

\* Stop() then RunCommand(): the old pair gets Close(), a new command is created
\* and, when it started, a new buffer wraps it and the annotators are launched;
\* when it did not, RunCommand panics before NewBuffer
StopAndRun ==
    \E outcome \in StartOutcomes :
        LET id == Cardinality(DOMAIN procs) + 1
            sc == NewShellCommand(outcome)
            stopped == [procs EXCEPT ![command] = "Closed"]
        IN  /\ id <= MaxReloads + 1
            /\ closedBuffers' = closedBuffers \cup {buffer}
            /\ command' = id
            /\ procs' = Put(stopped, id, Lifecycle(sc))
            /\ events' = events \o StopEvents \o RunEvents(id, sc)
            /\ IF sc.err
               THEN /\ UNCHANGED <<buffer, numLines, annotations>>
                    /\ fault' = "start_failed"
               ELSE /\ buffer' = id
                    /\ numLines' = 0
                    /\ annotations' = NoAnnotations
                    /\ fault' = "none"
            /\ UNCHANGED <<navVars, boxVars>>

\* Reload going through the constructor's table set-up again
ReloadRebuildingTables ==
    /\ StopAndRun
    /\ eventListeners' = addDefaultListeners
    /\ annotationEventListeners' = [x \in {} |-> EmptyMap]

\* Reload touches no listener table
ReloadBody ==
    /\ StopAndRun
    /\ UNCHANGED tableVars

NavBody(op) ==
    /\ StoreNav(NavOf(op))
    /\ UNCHANGED <<boxVars, tableVars, pairVars, bufVars>>

\* what calling a registered handler does to the pager
HandlerBody(h) ==
    IF h = "Reload" THEN ReloadBody
    ELSE IF h \in NavOps THEN NavBody(h)
    ELSE UNCHANGED <<navVars, boxVars, tableVars, pairVars, bufVars, fault>>

Nav(op) ==
    /\ Ready
    /\ NavBody(op)
    /\ Done(op, 0)

CursorUp == Nav("CursorUp")
CursorDown == Nav("CursorDown")
CursorFirstLine == Nav("CursorFirstLine")
CursorLastLine == Nav("CursorLastLine")
ScrollUp == Nav("ScrollUp")
ScrollDown == Nav("ScrollDown")
PageUp == Nav("PageUp")
PageDown == Nav("PageDown")

MoveCursorToY(y) ==
    /\ Ready
    /\ StoreNav(CursorTo(y))
    /\ UNCHANGED <<boxVars, tableVars, pairVars, bufVars>>
    /\ Done("MoveCursorToY", y)

ScrollToY(y) ==
    /\ Ready
    /\ StoreNav(ScrollTo(y))
    /\ UNCHANGED <<boxVars, tableVars, pairVars, bufVars>>
    /\ Done("ScrollToY", y)

SetBox(h) ==
    /\ Ready
    /\ box' = h
    /\ contentBox' = h - HeaderRows
    /\ UNCHANGED <<navVars, tableVars, pairVars, bufVars, fault>>
    /\ Done("SetBox", h)

Reload ==
    /\ Ready
    /\ ReloadBody
    /\ Done("Reload", 0)

\* Destroy() is Stop(): Close() on the pair that is current; the pager is over
Destroy ==
    /\ Ready
    /\ procs' = [procs EXCEPT ![command] = "Closed"]
    /\ closedBuffers' = closedBuffers \cup {buffer}
    /\ events' = events \o StopEvents
    /\ fault' = "destroyed"
    /\ UNCHANGED <<command, buffer, navVars, boxVars, tableVars, bufVars>>
    /\ Done("Destroy", 0)

AddEventListener(keyStr, handler) ==
    /\ Ready
    /\ eventListeners' = Put(eventListeners, keyStr, handler)
    /\ UNCHANGED <<annotationEventListeners, navVars, boxVars, pairVars, bufVars, fault>>
    /\ Done("AddEventListener", 0)

AddAnnotationEventListener(keyStr, annotationTypes, handler) ==
    LET old == IF keyStr \in DOMAIN annotationEventListeners
               THEN annotationEventListeners[keyStr]
               ELSE EmptyMap
        new == [c \in DOMAIN old \cup annotationTypes |->
                    IF c \in annotationTypes THEN handler ELSE old[c]]
    IN  /\ Ready
        /\ annotationEventListeners' = Put(annotationEventListeners, keyStr, new)
        /\ UNCHANGED <<eventListeners, navVars, boxVars, pairVars, bufVars, fault>>
        /\ Done("AddAnnotationEventListener", 0)

HandleEvent(ke) ==
    LET d == Dispatch(ke, AnnotationsForLine(cursorY), annotationEventListeners,
                      eventListeners)
    IN  /\ Ready
        /\ IF d.invoked = <<>>
           THEN UNCHANGED <<navVars, boxVars, tableVars, pairVars, bufVars, fault>>
           ELSE HandlerBody(d.invoked[1].handler)
        /\ UNCHANGED <<osVars, lockVars, drawVars>>
        /\ lastOp' = "HandleEvent"
        /\ lastArg' = 0
        /\ lastKey' = ke
        /\ invoked' = d.invoked
        /\ handled' = IF fault' # "none" THEN "none"
                      ELSE IF d.handled THEN "true" ELSE "false"

\* the buffer reads one more line from the command's output
AppendLine ==
    /\ Alive
    /\ Unlocked
    /\ numLines < MaxLines
    /\ numLines' = numLines + 1
    /\ annotations' = Put(annotations, numLines, <<>>)
    /\ UNCHANGED <<navVars, boxVars, tableVars, pairVars, fault>>
    /\ Done("AppendLine", 0)

\* an annotator attaches an annotation to a line of the live buffer
Annotate(y, class, val) ==
    /\ Alive
    /\ Unlocked
    /\ y \in Lines
    /\ NumAnnotations < MaxAnnotations
    /\ annotations' = [annotations EXCEPT ![y] = Append(@, [class |-> class, val |-> val])]
    /\ UNCHANGED <<numLines, navVars, boxVars, tableVars, pairVars, fault>>
    /\ Done("Annotate", 0)

(* ---------------------------------------------------------------------- *)
(* HandleEvent and Render step by step, next to the buffer's producers     *)
(* ---------------------------------------------------------------------- *)
\* an access of the pager to a buffer generation, and whether that
\* generation had got Close() by then
Access(kind, gen) == [kind |-> kind, gen |-> gen, retired |-> gen \in closedBuffers]

\* p.buffer.Lock(); defer p.buffer.Unlock(): the Unlock is bound to the
\* buffer p.buffer names now
HandleEventLock(ke) ==
    /\ Ready
    /\ held' = held \cup {buffer}
    /\ lockedGen' = buffer
    /\ access' = Access("lock", buffer)
    /\ pc' = "he_locked"
    /\ lastOp' = "HandleEvent"
    /\ lastArg' = 0
    /\ lastKey' = ke
    /\ invoked' = <<>>
    /\ handled' = "none"
    /\ UNCHANGED <<snapshot, navVars, boxVars, tableVars, pairVars, osVars,
                   bufVars, drawVars, fault>>

\* HandleEventRead letting go of the lock once the annotations are read
HandleEventReadUnlocking ==
    /\ Alive
    /\ pc = "he_locked"
    /\ snapshot' = AnnotationsForLine(cursorY)
    /\ access' = Access("read", buffer)
    /\ held' = held \ {buffer}
    /\ pc' = "he_read"
    /\ UNCHANGED <<lockedGen, navVars, boxVars, tableVars, pairVars, osVars,
                   bufVars, drawVars, fault, history>>

\* annotations := p.buffer.AnnotationsForLine(p.cursorY)
HandleEventRead ==
    /\ Alive
    /\ pc = "he_locked"
    /\ snapshot' = AnnotationsForLine(cursorY)
    /\ access' = Access("read", buffer)
    /\ pc' = "he_read"
    /\ UNCHANGED <<held, lockedGen, navVars, boxVars, tableVars, pairVars, osVars,
                   bufVars, drawVars, fault, history>>

\* the buffer access a handler ends with: the setters read NumLines(), Reload
\* closes the old buffer and, when the command started, creates the new one
HandlerAccess(h) ==
    IF h \in NavOps THEN Access("read", buffer)
    ELSE IF h = "Reload"
    THEN IF fault' = "none" THEN [kind |-> "create", gen |-> buffer', retired |-> FALSE]
         ELSE [kind |-> "close", gen |-> buffer, retired |-> FALSE]
    ELSE access

\* the context is built from the annotations read, and the handler is called
HandleEventDispatch ==
    LET d == Dispatch(lastKey, snapshot, annotationEventListeners, eventListeners)
    IN  /\ Alive
        /\ pc = "he_read"
        /\ IF d.invoked = <<>>
           THEN UNCHANGED <<navVars, boxVars, tableVars, pairVars, bufVars, fault, access>>
           ELSE /\ HandlerBody(d.invoked[1].handler)
                /\ access' = HandlerAccess(d.invoked[1].handler)
        /\ invoked' = d.invoked
        /\ handled' = IF fault' # "none" THEN "none"
                      ELSE IF d.handled THEN "true" ELSE "false"
        /\ pc' = "he_return"
        /\ UNCHANGED <<held, lockedGen, snapshot, osVars, drawVars, lastOp, lastArg, lastKey>>

\* the deferred Unlock runs on return, and on the panic of RunCommand; a stack
\* overflow ends the process without it. The local annotations are gone.
HandleEventUnlock ==
    /\ pc = "he_return"
    /\ fault # "stack_overflow"
    /\ held' = held \ {lockedGen}
    /\ access' = Access("unlock", lockedGen)
    /\ snapshot' = <<>>
    /\ pc' = "idle"
    /\ UNCHANGED <<lockedGen, navVars, boxVars, tableVars, pairVars,
                   osVars, bufVars, drawVars, fault, history>>

\* Render: p.buffer.Lock()
RenderLock ==
    /\ Ready
    /\ held' = held \cup {buffer}
    /\ access' = Access("lock", buffer)
    /\ pc' = "r_locked"
    /\ Record("Render", 0)
    /\ UNCHANGED <<lockedGen, snapshot, navVars, boxVars, tableVars, pairVars,
                   osVars, bufVars, drawVars, fault>>

\* drawHeader(): the header shows NumAnnotations(), cursorY+1 and NumLines()
drawHeader ==
    /\ Alive
    /\ pc = "r_locked"
    /\ headerLines' = numLines
    /\ access' = Access("read", buffer)
    /\ pc' = "r_header"
    /\ UNCHANGED <<markerRow, held, lockedGen, snapshot, navVars, boxVars, tableVars,
                   pairVars, osVars, bufVars, fault, history>>

\* drawContent(): the marker goes on row cursorY - scrollOffsetY of the
\* content box, then the lines of the window are drawn
drawContent ==
    /\ Alive
    /\ pc = "r_header"
    /\ markerRow' = cursorY - scrollOffsetY
    /\ access' = Access("read", buffer)
    /\ pc' = "r_content"
    /\ UNCHANGED <<headerLines, held, lockedGen, snapshot, navVars, boxVars, tableVars,
                   pairVars, osVars, bufVars, fault, history>>

\* Render: p.buffer.Unlock()
RenderUnlock ==
    /\ Alive
    /\ pc = "r_content"
    /\ held' = held \ {buffer}
    /\ access' = Access("unlock", buffer)
    /\ pc' = "idle"
    /\ UNCHANGED <<lockedGen, snapshot, navVars, boxVars, tableVars, pairVars,
                   osVars, bufVars, drawVars, fault, history>>

(* ---------------------------------------------------------------------- *)
(* The shell command wrapper on its own, with the processes it spawns      *)
(* ---------------------------------------------------------------------- *)
\* what the wrapper's steps leave alone: every field of the pager
pagerVars == <<navVars, boxVars, tableVars, command, buffer, closedBuffers,
               events, bufVars, lockVars, drawVars>>

\* a caller creates a shell command: the instance comes back in either case,
\* with a spawned shell only when Start succeeded
StartCommand(outcome) ==
    LET id == Cardinality(DOMAIN procs) + 1
        sc == NewShellCommand(outcome)
    IN  /\ Alive
        /\ id <= MaxWrappers
        /\ procs' = Put(procs, id, Lifecycle(sc))
        /\ tree' = Put(tree, id, IF sc.process THEN {"shell"} ELSE {})
        /\ UNCHANGED <<killed, fault, pagerVars>>
        /\ Record("NewShellCommand", id)

\* whether TASKKILL /T /F /PID takes hold of the tree: it has to run, and the
\* process with that pid has to be there still
TaskKill(id, ran) == ran /\ "shell" \in tree[id]

\* Close(): reads cmd.Process.Pid, runs TASKKILL and drops its result; it
\* waits for no process of the tree (Wait is not called) and returns nil
Close(id) ==
    /\ Alive
    /\ id \in DOMAIN procs
    /\ IF procs[id] = "Failed"
       THEN /\ fault' = "nil_process"
            /\ UNCHANGED <<procs, killed>>
       ELSE /\ \E ran \in BOOLEAN :
                   killed' = IF TaskKill(id, ran) THEN killed \cup {id} ELSE killed
            /\ procs' = [procs EXCEPT ![id] = "Closed"]
            /\ UNCHANGED fault
    /\ UNCHANGED <<tree, pagerVars>>
    /\ Record("Close", id)

\* the shell runs a command that forks
Fork(id) ==
    /\ id \in DOMAIN tree
    /\ id \notin killed
    /\ "shell" \in tree[id]
    /\ "child" \notin tree[id]
    /\ tree' = [tree EXCEPT ![id] = @ \cup {"child"}]
    /\ UNCHANGED <<procs, killed, fault, pagerVars, history>>

\* a process ends by itself
Exit(id, p) ==
    /\ id \in DOMAIN tree
    /\ id \notin killed
    /\ p \in tree[id]
    /\ tree' = [tree EXCEPT ![id] = @ \ {p}]
    /\ UNCHANGED <<procs, killed, fault, pagerVars, history>>

\* the operating system ends a process of a tree the kill took hold of
Die(id, p) ==
    /\ id \in killed
    /\ p \in tree[id]
    /\ tree' = [tree EXCEPT ![id] = @ \ {p}]
    /\ UNCHANGED <<procs, killed, fault, pagerVars, history>>

(* ---------------------------------------------------------------------- *)
(* Specifications                                                          *)
(* ---------------------------------------------------------------------- *)
\* the cursor/scroll state machine over a growing, reloadable buffer
Next ==
    \/ \E y \in Requests : MoveCursorToY(y)
    \/ \E y \in Requests : ScrollToY(y)
    \/ CursorUp
    \/ CursorDown
    \/ CursorFirstLine
    \/ CursorLastLine
    \/ ScrollUp
    \/ ScrollDown
    \/ PageUp
    \/ PageDown
    \/ \E h \in BoxHeights : SetBox(h)
    \/ Reload
    \/ AppendLine
    \/ \E k \in RegKeys, h \in PlainHandlers : AddEventListener(k, h)
    \/ \E k \in AnnRegKeys, ts \in SUBSET Classes, h \in AnnHandlers :
           AddAnnotationEventListener(k, ts, h)
    \/ \E ke \in PagerKeys : HandleEvent(ke)

Spec == Init /\ [][Next]_vars

\* listener registration and key dispatch over an annotated buffer
NextDispatch ==
    \/ \E k \in AnnRegKeys, h \in PlainHandlers : AddEventListener(k, h)
    \/ \E k \in AnnRegKeys, ts \in SUBSET Classes, h \in AnnHandlers :
           AddAnnotationEventListener(k, ts, h)
    \/ \E ke \in DispatchKeys : HandleEvent(ke)
    \/ AppendLine
    \/ \E y \in Lines, c \in Classes, v \in Vals : Annotate(y, c, v)

\* dispatch does not read the geometry: one box is enough
InitDispatch == Init /\ box = MaxBoxHeight

SpecDispatch == InitDispatch /\ [][NextDispatch]_vars

\* the life of the (command, buffer) pair: Reload, by call and by key, and Destroy
NextPair ==
    \/ Reload
    \/ Destroy
    \/ HandleEvent("C-r")
    \/ AppendLine
    \/ \E h \in BoxHeights : SetBox(h)

SpecPair == Init /\ [][NextPair]_vars

\* the outer loop (HandleEvent, then Render) and a late registration, while the
\* buffer's producers append lines and annotations
NextLock ==
    \/ \E ke \in LockKeys : HandleEventLock(ke)
    \/ HandleEventRead
    \/ HandleEventDispatch
    \/ HandleEventUnlock
    \/ RenderLock
    \/ drawHeader
    \/ drawContent
    \/ RenderUnlock
    \/ AddAnnotationEventListener("enter", {"url"}, "openHandler")
    \/ AppendLine
    \/ \E y \in Lines : Annotate(y, "url", "v1")

\* locking does not depend on the geometry: one box is enough
InitLock == Init /\ box = MaxBoxHeight

SpecLock == InitLock /\ [][NextLock]_vars

\* Render between resizes, cursor moves, reloads and new lines
NextDraw ==
    \/ RenderLock
    \/ drawHeader
    \/ drawContent
    \/ RenderUnlock
    \/ \E h \in BoxHeights : SetBox(h)
    \/ CursorDown
    \/ CursorUp
    \/ Reload
    \/ AppendLine

SpecDraw == Init /\ [][NextDraw]_vars

WrapperIds == 1..MaxWrappers

\* no pager: callers of the wrapper, and no command created yet
InitWrapper ==
    /\ cursorY = 0
    /\ scrollOffsetY = 0
    /\ box = MinBoxHeight
    /\ contentBox = box - HeaderRows
    /\ eventListeners = EmptyMap
    /\ annotationEventListeners = [x \in {} |-> EmptyMap]
    /\ command = 0
    /\ buffer = 0
    /\ procs = EmptyMap
    /\ closedBuffers = {}
    /\ events = <<>>
    /\ tree = [i \in {} |-> {}]
    /\ killed = {}
    /\ pc = "idle"
    /\ held = {}
    /\ lockedGen = 0
    /\ snapshot = <<>>
    /\ access = NoAccess
    /\ headerLines = 0
    /\ markerRow = 0
    /\ numLines = 0
    /\ annotations = NoAnnotations
    /\ fault = "none"
    /\ lastOp = "none"
    /\ lastArg = 0
    /\ lastKey = ""
    /\ invoked = <<>>
    /\ handled = "none"

NextWrapper ==
    \/ \E outcome \in StartOutcomes : StartCommand(outcome)
    \/ \E id \in WrapperIds : Close(id)
    \/ \E id \in WrapperIds : Fork(id)
    \/ \E id \in WrapperIds, p \in Processes : Exit(id, p)
    \/ \E id \in WrapperIds, p \in Processes : Die(id, p)

\* a process the kill took hold of does end; nothing else is promised
SpecWrapper ==
    /\ InitWrapper
    /\ [][NextWrapper]_vars
    /\ \A id \in WrapperIds, p \in Processes : WF_vars(Die(id, p))

(* ---------------------------------------------------------------------- *)
(* Properties of the cursor/scroll state machine                           *)
(* ---------------------------------------------------------------------- *)
CursorOps == {"MoveCursorToY", "CursorUp", "CursorDown", "CursorFirstLine", "CursorLastLine"}
ScrollOps == {"ScrollToY", "ScrollUp", "ScrollDown", "PageUp", "PageDown"}
MoveOps == CursorOps \cup ScrollOps

InViewport == scrollOffsetY <= cursorY /\ cursorY <= scrollOffsetY + contentBox - 1

CursorInBuffer == IF numLines = 0 THEN cursorY = 0 ELSE 0 <= cursorY /\ cursorY < numLines

ScrollInBuffer == 0 <= scrollOffsetY /\ scrollOffsetY <= Max(0, numLines - contentBox)

\* C1: MoveCursorTo(i) returns with cursorLine = clamp(i, 0, N-1), and with
\* cursorLine = 0 when the buffer is empty, for every N >= 0 and every i.
C1_MoveCursorToClamps ==
    lastOp = "MoveCursorToY" =>
        /\ fault = "none"
        /\ cursorY = (IF numLines = 0 THEN 0 ELSE Clamp(lastArg, 0, numLines - 1))

\* C2: ScrollTo(s) returns with scrollOffset = clamp(s, 0, max(0, N-H)), the
\* cursor correction that follows included, for every N, H and s.
C2_ScrollToClamps ==
    lastOp = "ScrollToY" =>
        /\ fault = "none"
        /\ scrollOffsetY = Clamp(lastArg, 0, Max(0, numLines - contentBox))

\* C3: after any sequence of cursor, scroll and page operations the cursor is
\* inside the viewport: scrollOffset <= cursorLine <= scrollOffset + H - 1.
C3_AutoFollow == lastOp \in MoveOps => InViewport

\* C4: every cursor/scroll operation returns: the two setters call each other a
\* bounded number of times, also on an empty buffer.
C4_SettersReturn == lastOp \in MoveOps => fault # "stack_overflow"

\* C8: in every state of a running pager 0 <= cursorLine < totalLines, or
\* cursorLine = 0 when the live buffer is empty (also after Reload).
C8_CursorBound == fault = "none" => CursorInBuffer

\* C9: in every state of a running pager 0 <= scrollOffset <=
\* max(0, totalLines - contentHeight) (also after SetBox and after Reload).
C9_ScrollBound == fault = "none" => ScrollInBuffer

\* C11: Last on a buffer of N lines returns with the cursor on the last line
\* (N-1, the only line 0 of C8 when the buffer is empty), the request N being
\* clamped and never stored, and with that line inside the viewport.
C11_LastLandsOnLastLine ==
    lastOp = "CursorLastLine" =>
        /\ fault = "none"
        /\ cursorY = Max(0, numLines - 1)
        /\ InViewport

\* C16: after a cursor move the offset is unchanged if the new cursor line is
\* inside the viewport [scrollOffset, scrollOffset+H-1], becomes the cursor
\* line if that is above it, and cursorLine-(H-1) if it is below.
C16_CursorMoveSlidesViewport ==
    [][(lastOp' \in CursorOps /\ fault' = "none") =>
        IF cursorY' < scrollOffsetY THEN scrollOffsetY' = cursorY'
        ELSE IF cursorY' > scrollOffsetY + contentBox - 1
        THEN scrollOffsetY' = cursorY' - (contentBox - 1)
        ELSE scrollOffsetY' = scrollOffsetY]_vars

\* C17: after a scroll move the cursor is unchanged if it is inside the new
\* viewport, becomes scrollOffset if it was above it and scrollOffset+H-1 if it
\* was below; PageDown and PageUp ask for the content height as delta.
C17_ScrollMoveSnapsCursor ==
    [][(lastOp' \in ScrollOps /\ fault' = "none") =>
        /\ IF cursorY < scrollOffsetY' THEN cursorY' = scrollOffsetY'
           ELSE IF cursorY > scrollOffsetY' + contentBox - 1
           THEN cursorY' = scrollOffsetY' + contentBox - 1
           ELSE cursorY' = cursorY
        /\ lastOp' = "PageDown" =>
               scrollOffsetY' = Clamp(scrollOffsetY + contentBox, 0,
                                      Max(0, numLines - contentBox))
        /\ lastOp' = "PageUp" =>
               scrollOffsetY' = Clamp(scrollOffsetY - contentBox, 0,
                                      Max(0, numLines - contentBox))]_vars

(* ---------------------------------------------------------------------- *)
(* Properties of the dispatch                                              *)
(* ---------------------------------------------------------------------- *)
Indices(anns) == 1..Len(anns)
ClassesOf(anns) == {anns[i].class : i \in Indices(anns)}
HandlersFor(ke) ==
    IF ke \in DOMAIN annotationEventListeners THEN annotationEventListeners[ke] ELSE EmptyMap
\* the positions on the line whose class has a handler for the key
Matching(anns, ke) == {i \in Indices(anns) : anns[i].class \in DOMAIN HandlersFor(ke)}
Least(S) == CHOOSE i \in S : \A j \in S : i <= j
Greatest(S) == CHOOSE i \in S : \A j \in S : j <= i
Kinds == {invoked[i].kind : i \in DOMAIN invoked}

\* C5: one HandleEvent calls at most one handler, never an annotation handler
\* and a plain one, and when it returns it returns true exactly if it called
\* one; with no plain listener for the key and no annotation on the cursor line
\* it calls nothing and returns false.
C5_AtMostOneHandler ==
    lastOp = "HandleEvent" =>
        /\ Len(invoked) <= 1
        /\ Cardinality(Kinds) <= 1
        /\ fault = "none" => (handled = "true" <=> Len(invoked) = 1)
        /\ fault = "none" => (handled = "false" <=> Len(invoked) = 0)
        /\ (lastKey \notin DOMAIN eventListeners /\ AnnotationsForLine(cursorY) = <<>>)
               => (invoked = <<>> /\ handled = "false")

\* two annotation classes on the cursor line both have a handler for the key,
\* a plain listener is registered for it too, and one handler was called
C5_Witness ==
    /\ lastOp = "HandleEvent"
    /\ lastKey \in DOMAIN eventListeners
    /\ Cardinality(Matching(AnnotationsForLine(cursorY), lastKey)) = 2
    /\ Cardinality(ClassesOf(AnnotationsForLine(cursorY))) = 2
    /\ Len(invoked) = 1
    /\ handled = "true"

\* C6: the handler called is the one bound to the class of the first annotation
\* of the cursor line, in reported order, whose class has a handler for the key;
\* the plain listener is called only when there is no such annotation.
C6_Precedence ==
    [][lastOp' = "HandleEvent" =>
        LET anns == AnnotationsForLine(cursorY)
            m == Matching(anns, lastKey')
        IN  IF m # {}
            THEN /\ Len(invoked') = 1
                 /\ invoked'[1].kind = "annotation"
                 /\ invoked'[1].handler = HandlersFor(lastKey')[anns[Least(m)].class]
            ELSE IF lastKey' \in DOMAIN eventListeners
            THEN /\ Len(invoked') = 1
                 /\ invoked'[1].kind = "plain"
                 /\ invoked'[1].handler = eventListeners[lastKey']
            ELSE invoked' = <<>>]_vars

\* the first annotation of the line has no handler, the second has one and
\* fired, shadowing the plain listener of the same key
C6_Witness ==
    /\ lastOp = "HandleEvent"
    /\ lastKey \in DOMAIN eventListeners
    /\ Len(AnnotationsForLine(cursorY)) = 2
    /\ Matching(AnnotationsForLine(cursorY), lastKey) = {2}
    /\ Len(invoked) = 1
    /\ invoked[1].kind = "annotation"

\* C7: the Context given to an annotation handler has exactly the classes
\* present on the cursor line, each with the value of the last annotation of
\* that class in reported order.
C7_ContextOfCursorLine ==
    (lastOp = "HandleEvent" /\ invoked # <<>> /\ invoked[1].kind = "annotation") =>
        LET anns == AnnotationsForLine(cursorY)
            ctx == invoked[1].ctx
        IN  /\ DOMAIN ctx = ClassesOf(anns)
            /\ \A c \in DOMAIN ctx :
                   ctx[c] = anns[Greatest({i \in Indices(anns) : anns[i].class = c})].val

\* the cursor line carries two annotations of one class with different values
\* and an annotation handler was called
C7_Witness ==
    /\ lastOp = "HandleEvent"
    /\ invoked # <<>>
    /\ invoked[1].kind = "annotation"
    /\ Len(AnnotationsForLine(cursorY)) = 2
    /\ AnnotationsForLine(cursorY)[1].class = AnnotationsForLine(cursorY)[2].class
    /\ AnnotationsForLine(cursorY)[1].val # AnnotationsForLine(cursorY)[2].val

(* ---------------------------------------------------------------------- *)
(* Properties of Reload                                                    *)
(* ---------------------------------------------------------------------- *)
ReloadRan ==
    \/ lastOp = "Reload"
    \/ lastOp = "HandleEvent" /\ invoked # <<>> /\ invoked[1].handler = "Reload"

\* lines a key can meet: none, or one annotation of some class
SampleLines == {<<>>} \cup {<<[class |-> c, val |-> v]>> : c \in Classes, v \in Vals}

\* C10: Reload leaves both listener tables as they were, so every key
\* dispatches as before, and when the new command starts, the pager's command
\* and buffer are a new, running pair with an empty buffer, the old pair
\* having got Close().
C10_ReloadKeepsListeners ==
    [][ReloadRan' =>
        /\ eventListeners' = eventListeners
        /\ annotationEventListeners' = annotationEventListeners
        /\ \A ke \in Keys, anns \in SampleLines :
               Dispatch(ke, anns, annotationEventListeners', eventListeners')
                   = Dispatch(ke, anns, annotationEventListeners, eventListeners)
        /\ fault' = "none" =>
            /\ command' \notin DOMAIN procs
            /\ procs'[command'] = "Running"
            /\ buffer' = command'
            /\ buffer' \notin closedBuffers'
            /\ numLines' = 0
            /\ procs'[command] = "Closed"
            /\ buffer \in closedBuffers']_vars

\* Reload ran on a pager whose tables hold more than the default listeners
C10_Witness ==
    /\ ReloadRan
    /\ fault = "none"
    /\ eventListeners # addDefaultListeners
    /\ DOMAIN annotationEventListeners # {}
    /\ buffer > 1

(* ---------------------------------------------------------------------- *)
(* Properties of the (command, buffer) pair                                *)
(* ---------------------------------------------------------------------- *)
EventsAt(op, id) == {i \in DOMAIN events : events[i] = Event(op, id)}

Failed == {id \in DOMAIN procs : procs[id] = "Failed"}
Running == {id \in DOMAIN procs : procs[id] = "Running"}

\* C14: when NewShellCommand returns an error, construction or Reload ends
\* there: creating the command is the last call made, no buffer is created
\* over it and no annotator launched for it, and the pager does not go on; a
\* pager that goes on has a running command and an open buffer over it.
C14_ConstructionFailureFatal ==
    /\ \A id \in Failed :
           /\ fault = "start_failed"
           /\ command = id
           /\ buffer # id
           /\ events[Len(events)] = Event("Start", id)
           /\ EventsAt("NewBuffer", id) = {}
           /\ EventsAt("AnnotateWith", id) = {}
    /\ fault = "none" =>
           /\ procs[command] = "Running"
           /\ buffer = command
           /\ buffer \notin closedBuffers

\* a Reload whose command did not start, after the old pair was closed
C14_Witness ==
    /\ fault = "start_failed"
    /\ command > 1
    /\ procs[command] = "Failed"
    /\ buffer \in closedBuffers

\* C15: at most one command is running and a pager that goes on has exactly
\* the pair (command, buffer) live; every Reload issues Close to the old
\* command and the old buffer before it starts the new command and creates
\* the new buffer; Destroy issues Close to the current pair.
C15_OneLivePair ==
    /\ Cardinality(Running) <= 1
    /\ fault = "none" =>
           /\ Running = {command}
           /\ buffer = command
           /\ buffer \notin closedBuffers
    /\ \A id \in DOMAIN procs \ {1} :
           \A i \in EventsAt("Start", id) \cup EventsAt("NewBuffer", id) :
               /\ \E j \in EventsAt("CloseCommand", id - 1) : j < i
               /\ \E j \in EventsAt("CloseBuffer", id - 1) : j < i
    /\ lastOp = "Destroy" =>
           /\ Running = {}
           /\ procs[command] = "Closed"
           /\ buffer \in closedBuffers
           /\ Len(events) >= 2
           /\ events[Len(events) - 1] = Event("CloseCommand", command)
           /\ events[Len(events)] = Event("CloseBuffer", buffer)

\* Destroy after a Reload: the pair closed last is the reloaded one
C15_Witness ==
    /\ lastOp = "Destroy"
    /\ command > 1
    /\ EventsAt("NewBuffer", command) # {}

(* ---------------------------------------------------------------------- *)
(* Properties of the shell command wrapper                                 *)
(* ---------------------------------------------------------------------- *)
\* C12: Close returns without an error or a runtime failure in whatever
\* lifecycle state the command is (Running, Closed, or returned by a
\* NewShellCommand that failed), and leaves it Closed.
C12_CloseNeverFails ==
    lastOp = "Close" =>
        /\ fault = "none"
        /\ procs[lastArg] = "Closed"

\* C13: once Close was called on a started command whose shell has forked,
\* eventually no process of its tree is alive.
C13_TreeTerminates ==
    \A id \in WrapperIds :
        (id \in DOMAIN procs /\ procs[id] = "Closed" /\ "child" \in tree[id])
            ~> (id \in DOMAIN tree /\ tree[id] = {})

(* ---------------------------------------------------------------------- *)
(* Properties of locking and drawing                                       *)
(* ---------------------------------------------------------------------- *)
InHandleEvent == {"he_locked", "he_read", "he_return"}
InRender == {"r_locked", "r_header", "r_content"}

\* C18: HandleEvent holds the lock it took on the live buffer from before it
\* reads the annotations of the cursor line until the handler has returned,
\* and Render holds it across drawHeader and drawContent; so the annotations
\* the handler is chosen from are those the line has at that moment, and the
\* line count the header showed is the one the content is drawn from.
C18_LockHeldThroughout ==
    /\ pc \in {"he_locked", "he_read"} => (lockedGen = buffer /\ held = {buffer})
    /\ pc \in InHandleEvent => lockedGen \in held
    /\ pc = "he_read" => snapshot = AnnotationsForLine(cursorY)
    /\ pc \in InRender => held = {buffer}
    /\ pc = "r_content" => headerLines = numLines
    /\ pc = "idle" => held = {}

\* HandleEvent has read an annotated line for a key with an annotation
\* listener, while the producers had more to add
C18_Witness ==
    /\ pc = "he_read"
    /\ Len(snapshot) = 1
    /\ lastKey = "enter"
    /\ lastKey \in DOMAIN annotationEventListeners
    /\ NumAnnotations < MaxAnnotations
    /\ numLines < MaxLines

\* C19: the pager makes no access (read, lock or unlock) to a buffer
\* generation that Reload has retired.
C19_RetiredNeverReferenced == access.retired = FALSE

\* C20: the row Render draws the cursor marker on is a row of the content box.
C20_MarkerInsideContentBox ==
    pc = "r_content" => (0 <= markerRow /\ markerRow <= contentBox - 1)

====
